---- MODULE Spec2Model ----
(***************************************************************************)
(* toggl-timewax: synchronisation between the Timewax catalog and the      *)
(* Toggl tracker.  The model covers the two commands of the CLI:           *)
(*   to_toggl    (sync_to_toggl,   cli.py)  hierarchy sync                 *)
(*   to_timewax  (sync_to_timewax, cli.py)  time entry reconciliation      *)
(* and the entity models and gateways of main.py they call; a third        *)
(* specification applies the entity models on their own.                   *)
(*                                                                         *)
(* Strings are sequences of one-character strings, so that formatting and  *)
(* parsing of display names and descriptions are computed, not assumed.    *)
(* Python's None is NoneId (0) for identifiers, NoneObj for objects and    *)
(* the empty sequence for strings that are only tested for truth.          *)
(***************************************************************************)
EXTENDS Integers, Sequences, FiniteSets, TLC

VARIABLES
    tw_pairs,           \* catalog: what Timewax.list_my_projects yields, in order
    tw_authorized,      \* catalog: <<project code, breakdown code>> the user may book on
    tw_records,         \* catalog: the time records of the entries list, in order
    srv_clients,        \* tracker service: client names, the id is the position
    srv_projects,       \* tracker service: [cid, name], the id is the position
    srv_entries,        \* tracker service: the time entries of the listing, in order
    clients,            \* Toggl.clients: id -> ClientProject
    projects,           \* Toggl.projects: cid -> (pid -> ProjectBreakdown or NoneObj)
    pc,                 \* where the command line program is
    idx,                \* sync_to_toggl: position in tw_pairs of the next pair
    runs,               \* number of commands started so far
    events,             \* history: one record per loop iteration of sync_to_toggl
    recent_timewax,     \* sync_to_timewax: guid -> TimeEntry (catalog mapping)
    entries_to_update,  \* sync_to_timewax: the list to submit
    pos,                \* sync_to_timewax: position in srv_entries of the next entry
    decisions,          \* history: what was decided for each tracker entry of the run
    submitted,          \* history: the batches handed to Timewax.add_entries
    token_response,     \* catalog: what the token request of the last command got
    outcomes,           \* history: how each command ended, in order
    conv                \* the entity models applied to one input: [op, ..., result]

vars == <<tw_pairs, tw_authorized, tw_records, srv_clients, srv_projects,
          srv_entries, clients, projects, pc, idx, runs, events,
          recent_timewax, entries_to_update, pos, decisions, submitted,
          token_response, outcomes, conv>>

hier_vars == <<tw_pairs, tw_authorized, srv_clients, srv_projects, clients,
               projects, idx, events>>

entry_vars == <<tw_records, srv_entries, recent_timewax, entries_to_update,
                pos, decisions, submitted>>

(***************************************************************************)
(* Bounds of the model.                                                    *)
(***************************************************************************)
MaxPairs == 2

MaxRuns == 2

MaxRecords == 2

MaxEntries == 2

(***************************************************************************)
(* Python values.                                                          *)
(***************************************************************************)
NoneId == 0

NoneObj == [none |-> TRUE]

EmptyDict == <<>>

Digits == {"0", "1", "2", "3", "4", "5", "6", "7", "8", "9"}

\* ' - ', the separator of the naming convention
Sep == <<" ", "-", " ">>

\* 'ID:', the marker of the identifier in a catalog description
Marker == <<"I", "D", ":">>

Min(S) == CHOOSE x \in S : \A y \in S : x <= y

\* the start positions of sub in s
occurrences(s, sub) ==
    {i \in 1..(Len(s) - Len(sub) + 1) : SubSeq(s, i, i + Len(sub) - 1) = sub}

\* Python's `sub in s` for strings
contains(s, sub) == occurrences(s, sub) # {}

Max(S) == CHOOSE x \in S : \A y \in S : x >= y

split_last(s, sep) ==
    IF occurrences(s, sep) = {}
    THEN <<s>>
    ELSE LET i == Max(occurrences(s, sep))
         IN <<SubSeq(s, 1, i - 1), SubSeq(s, i + Len(sep), Len(s))>>

\* s.split(sep, 1): one part when sep does not occur, else what is before and
\* what is after the first occurrence
split_first(s, sep) ==
    IF occurrences(s, sep) = {}
    THEN <<s>>
    ELSE LET i == Min(occurrences(s, sep))
         IN <<SubSeq(s, 1, i - 1), SubSeq(s, i + Len(sep), Len(s))>>

\* re.match(r'[0-9]{7,10}', code): a match object when code starts with at
\* least 7 digits (the match is not anchored at the end), else None
re_match_code(code) ==
    /\ Len(code) >= 7
    /\ \A i \in 1..7 : code[i] \in Digits

(***************************************************************************)
(* Entity models.                                                          *)
(***************************************************************************)
\* ClientProject.toggl_name and ProjectBreakdown.toggl_name
toggl_name(o) == o.timewax_code \o Sep \o o.name

Raise(exc) == [raised |-> exc]

Return(v) == [raised |-> "none", value |-> v]

\* ClientProject.from_toggl: json_data is [id, name]
ClientProject_from_toggl(json_data) ==
    LET parts == split_first(json_data.name, Sep)
    IN IF Len(parts) # 2
       THEN Raise("EntryMismatchException")      \* ValueError on unpacking
       ELSE IF ~re_match_code(parts[1])
       THEN Raise("EntryMismatchException")      \* AttributeError on None.end()
       ELSE Return([name |-> parts[2],
                    timewax_code |-> parts[1],
                    toggl_id |-> json_data.id])

\* ProjectBreakdown.from_toggl: json_data is [id, cid, name]; the ValueError is
\* caught and the method falls off its end, returning None
ProjectBreakdown_from_toggl(json_data) ==
    LET parts == split_first(json_data.name, Sep)
    IN IF Len(parts) # 2
       THEN NoneObj
       ELSE [name |-> parts[2],
             timewax_code |-> parts[1],
             toggl_client_id |-> json_data.cid,
             toggl_id |-> json_data.id]

(***************************************************************************)
(* Toggl: the tracker gateway.  t is the gateway with the service behind   *)
(* it: [clients, projects, srv_clients, srv_projects].                     *)
(***************************************************************************)
\* Toggl.get_all_clients
get_all_clients(sc) ==
    LET parsed(i) == ClientProject_from_toggl([id |-> i, name |-> sc[i]])
        kept == {i \in 1..Len(sc) : parsed(i).raised = "none"}
    IN [i \in kept |-> parsed(i).value]

\* Toggl.get_all_projects
get_all_projects(sp) ==
    LET cids == {sp[i].cid : i \in 1..Len(sp)}
    IN [c \in cids |->
          [p \in {i \in 1..Len(sp) : sp[i].cid = c} |->
              ProjectBreakdown_from_toggl(
                  [id |-> p, cid |-> sp[p].cid, name |-> sp[p].name])]]

\* Toggl.has_client
has_client(cl, name) == name \in {toggl_name(cl[i]) : i \in DOMAIN cl}

\* Toggl.get_client_id: the first client of that name, None when there is none
get_client_id(cl, name) ==
    LET ids == {i \in DOMAIN cl : toggl_name(cl[i]) = name}
    IN IF ids = {} THEN NoneId ELSE Min(ids)

client_has_project_unguarded(t, name, client_id) ==
    LET ps == IF client_id \in DOMAIN t.projects
              THEN t.projects[client_id] ELSE EmptyDict
    IN IF \E p \in DOMAIN ps : ps[p] = NoneObj
       THEN Raise("AttributeError")
       ELSE Return(name \in {toggl_name(ps[p]) : p \in DOMAIN ps})

client_has_project_never(t, name, client_id) ==
    IF client_id \notin DOMAIN t.clients
    THEN Raise("EntryMismatchException")
    ELSE LET ps == IF client_id \in DOMAIN t.projects
                   THEN t.projects[client_id] ELSE EmptyDict
         IN IF \E p \in DOMAIN ps : ps[p] = NoneObj
            THEN Raise("AttributeError")
            ELSE Return(FALSE)

\* Toggl.client_has_project
client_has_project(t, name, client_id) ==
    IF client_id \notin DOMAIN t.clients
    THEN Raise("EntryMismatchException")
    ELSE LET ps == IF client_id \in DOMAIN t.projects
                   THEN t.projects[client_id] ELSE EmptyDict
         IN IF \E p \in DOMAIN ps : ps[p] = NoneObj
            THEN Raise("AttributeError")         \* None.toggl_name
            ELSE Return(name \in {toggl_name(ps[p]) : p \in DOMAIN ps})

\* dict.update({k: v})
update(d, k, v) == (k :> v) @@ d

\* Toggl.add_client: ok is whether the service creates the client and answers
\* with its json, the new client getting the next free id; otherwise the
\* answer is no json (ValueError) and data is {}
add_client(t, name, ok) ==
    LET id == Len(t.srv_clients) + 1
        srv == IF ok THEN Append(t.srv_clients, name) ELSE t.srv_clients
        data_name == IF ok THEN name ELSE <<>>
    IN IF contains(data_name, name)
       THEN LET c == ClientProject_from_toggl([id |-> id, name |-> data_name])
            IN IF c.raised # "none"
               THEN [t |-> [t EXCEPT !.srv_clients = srv], raised |-> c.raised]
               ELSE [t |-> [t EXCEPT !.srv_clients = srv,
                                     !.clients = update(t.clients, id, c.value),
                                     !.projects = update(t.projects, id, EmptyDict)],
                     raised |-> "none"]
       ELSE [t |-> [t EXCEPT !.srv_clients = srv], raised |-> "none"]

add_project_overwrite(t, client_id, project_name, ok) ==
    LET pid == Len(t.srv_projects) + 1
        json == [id |-> pid, cid |-> client_id, name |-> project_name]
        srv == IF ok
               THEN Append(t.srv_projects, [cid |-> client_id, name |-> project_name])
               ELSE t.srv_projects
    IN IF ok
       THEN [t |-> [t EXCEPT !.srv_projects = srv,
                             !.projects = update(t.projects, client_id,
                                 pid :> ProjectBreakdown_from_toggl(json))],
             raised |-> "none"]
       ELSE [t |-> [t EXCEPT !.srv_projects = srv], raised |-> "TypeError"]

\* Toggl.add_project: the log call of the failure branch applies % to one
\* argument for two %s and raises TypeError
add_project(t, client_id, project_name, ok) ==
    LET pid == Len(t.srv_projects) + 1
        json == [id |-> pid, cid |-> client_id, name |-> project_name]
        srv == IF ok
               THEN Append(t.srv_projects, [cid |-> client_id, name |-> project_name])
               ELSE t.srv_projects
        data_name == IF ok THEN project_name ELSE <<>>
        old == IF client_id \in DOMAIN t.projects
               THEN t.projects[client_id] ELSE EmptyDict
    IN IF contains(data_name, project_name)
       THEN [t |-> [t EXCEPT !.srv_projects = srv,
                             !.projects = update(t.projects, client_id,
                                 update(old, pid, ProjectBreakdown_from_toggl(json)))],
             raised |-> "none"]
       ELSE [t |-> [t EXCEPT !.srv_projects = srv], raised |-> "TypeError"]

(***************************************************************************)
(* Timewax: the catalog gateway.                                           *)
(***************************************************************************)
get_token_unchecked(has_token) ==
    IF has_token THEN Return(<<"k">>) ELSE Return(<<>>)

\* Timewax.get_token, called by Timewax.__init__: has_token is whether the
\* response carries a token element; without one the program exits
get_token(has_token) ==
    IF has_token THEN Return(<<"k">>) ELSE Raise("SystemExit")

check_breakdown_authorization_always(auth, project, breakdown) == Return(TRUE)

check_breakdown_authorization_raises(auth, project, breakdown) ==
    IF <<project.timewax_code, breakdown.timewax_code>> \in auth
    THEN Return(TRUE)
    ELSE Raise("EntryMismatchException")

\* Timewax.check_breakdown_authorization: the service answers the probe with
\* valid 'yes' for the pairs the user may book on
check_breakdown_authorization(auth, project, breakdown) ==
    Return(<<project.timewax_code, breakdown.timewax_code>> \in auth)

\* the loop body of sync_to_toggl for one pair: okC and okP are whether the
\* service creates the client and the project when asked to.  The result has
\* the gateway after the iteration, the exception that ended it ("none" when
\* it ran to its end) and what it asked of the two services.
sync_to_toggl_pair(t, auth, pair, okC, okP) ==
    LET cname == toggl_name(pair.owner)
        pname == toggl_name(pair.child)
        ask_client == ~has_client(t.clients, cname)
        a == IF ask_client THEN add_client(t, cname, okC)
                           ELSE [t |-> t, raised |-> "none"]
        owner_create == IF ~ask_client THEN "none"
                        ELSE IF okC THEN "created" ELSE "failed"
        toggl_client_id == get_client_id(a.t.clients, cname)
        h == client_has_project(a.t, pname, toggl_client_id)
        ask_probe == a.raised = "none" /\ h.raised = "none" /\ ~h.value
        v == IF ask_probe
             THEN check_breakdown_authorization(auth, pair.owner, pair.child)
             ELSE Return(FALSE)
        valid == v.raised = "none" /\ v.value
        ask_project == ask_probe /\ valid
        b == IF ask_project THEN add_project(a.t, toggl_client_id, pname, okP)
                            ELSE [t |-> a.t, raised |-> "none"]
    IN [t |-> b.t,
        raised |-> IF a.raised # "none" THEN a.raised
                   ELSE IF h.raised # "none" THEN h.raised
                   ELSE IF v.raised # "none" THEN v.raised
                   ELSE b.raised,
        owner_create |-> owner_create,
        client_id |-> IF a.raised = "none" THEN toggl_client_id ELSE NoneId,
        probe |-> IF ~ask_probe THEN "none"
                  ELSE IF valid THEN "accepted" ELSE "rejected",
        child_create |-> IF ~ask_project THEN "none"
                         ELSE IF okP THEN "created" ELSE "failed"]

(***************************************************************************)
(* The inputs: what the catalog and the tracker service hold.              *)
(***************************************************************************)
SeqsUpTo(S, n) == UNION {[1..k -> S] : k \in 0..n}

\* two catalog projects whose codes follow the convention, and one whose code
\* does not
OwnerA == [timewax_code |-> <<"1", "2", "3", "4", "5", "6", "7">>, name |-> <<"A">>]

OwnerD == [timewax_code |-> <<"7", "6", "5", "4", "3", "2", "1", "0">>, name |-> <<"D">>]

OwnerX == [timewax_code |-> <<"X", "1">>, name |-> <<"X">>]

BreakdownB == [timewax_code |-> <<"B">>, name |-> <<"b">>]

BreakdownC == [timewax_code |-> <<"C">>, name |-> <<"c">>]

Owners == {OwnerA, OwnerD, OwnerX}

Breakdowns == {BreakdownB, BreakdownC}

Pairs == [owner : Owners, child : Breakdowns]

PairCodes == {<<p.owner.timewax_code, p.child.timewax_code>> : p \in Pairs}

\* what the user may book on: all pairs of some of the breakdowns
AuthSets ==
    {{c \in PairCodes : c[2] \in bs} :
        bs \in SUBSET {b.timewax_code : b \in Breakdowns}}

\* the tracker workspace before the first command: empty; the owner and one
\* child already there; a client and a project that are not from the catalog;
\* the owner with a project under it that is not from the catalog
SrvInits ==
    { [clients |-> <<>>, projects |-> <<>>],
      [clients |-> <<toggl_name(OwnerA)>>,
       projects |-> <<[cid |-> 1, name |-> toggl_name(BreakdownB)]>>],
      [clients |-> << <<"A", "c", "m", "e">> >>,
       projects |-> <<[cid |-> NoneId, name |-> <<"m">>]>>],
      [clients |-> <<toggl_name(OwnerA)>>,
       projects |-> <<[cid |-> 1, name |-> <<"m">>]>>] }

\* no entity model has been applied on its own
NoConv == [op |-> "none"]

NoEntries ==
    /\ tw_records = <<>>
    /\ srv_entries = <<>>
    /\ recent_timewax = EmptyDict
    /\ entries_to_update = <<>>
    /\ pos = 1
    /\ decisions = <<>>
    /\ submitted = <<>>

Init ==
    /\ tw_pairs \in SeqsUpTo(Pairs, MaxPairs)
    /\ tw_authorized \in AuthSets
    /\ \E s \in SrvInits : srv_clients = s.clients /\ srv_projects = s.projects
    /\ clients = EmptyDict
    /\ projects = EmptyDict
    /\ pc = "idle"
    /\ idx = 1
    /\ runs = 0
    /\ events = <<>>
    /\ NoEntries
    /\ token_response = "none"
    /\ outcomes = <<>>
    /\ conv = NoConv

(***************************************************************************)
(* The to_toggl command.                                                   *)
(***************************************************************************)
\* get_toggl_timewax_from_ctx builds the gateways: Timewax.__init__ asks for
\* the token and Toggl.__init__ reads the clients and the projects of the
\* workspace; then sync_to_toggl starts
ToToggl ==
    /\ pc \in {"idle", "finished", "aborted", "exited"}
    /\ runs < MaxRuns
    /\ runs' = runs + 1
    /\ \E has_token \in BOOLEAN :
       \E token \in {get_token(has_token)} :
         /\ token_response' = IF has_token THEN "token" ELSE "no_token"
         /\ IF token.raised # "none"
            THEN /\ pc' = "exited"
                 /\ outcomes' = Append(outcomes, "exited")
                 /\ UNCHANGED <<clients, projects, idx>>
            ELSE /\ clients' = get_all_clients(srv_clients)
                 /\ projects' = get_all_projects(srv_projects)
                 /\ idx' = 1
                 /\ pc' = "sync_to_toggl"
                 /\ UNCHANGED outcomes
    /\ UNCHANGED <<tw_pairs, tw_authorized, srv_clients, srv_projects, events>>
    /\ UNCHANGED entry_vars
    /\ UNCHANGED conv

\* the Toggl object and the service behind it
Gateway ==
    [clients |-> clients, projects |-> projects,
     srv_clients |-> srv_clients, srv_projects |-> srv_projects]

\* one iteration of the loop of sync_to_toggl; an exception leaves the loop
\* and ends the command
SyncToTogglPair ==
    /\ pc = "sync_to_toggl"
    /\ idx <= Len(tw_pairs)
    /\ \E okC \in BOOLEAN, okP \in BOOLEAN :
       \E r \in {sync_to_toggl_pair(Gateway, tw_authorized, tw_pairs[idx], okC, okP)} :
         LET pair == tw_pairs[idx]
             e == [run |-> runs, idx |-> idx,
                   owner |-> toggl_name(pair.owner),
                   child |-> toggl_name(pair.child),
                   owner_create |-> r.owner_create,
                   owner_on_server |->
                       \E i \in 1..Len(srv_clients) :
                           srv_clients[i] = toggl_name(pair.owner),
                   client_id |-> r.client_id,
                   probe |-> r.probe,
                   child_create |-> r.child_create,
                   child_on_server |->
                       \E i \in 1..Len(srv_projects) :
                           srv_projects[i] = [cid |-> r.client_id,
                                              name |-> toggl_name(pair.child)],
                   raised |-> r.raised]
         IN /\ clients' = r.t.clients
            /\ projects' = r.t.projects
            /\ srv_clients' = r.t.srv_clients
            /\ srv_projects' = r.t.srv_projects
            /\ events' = Append(events, e)
            /\ IF r.raised = "none"
               THEN pc' = pc /\ idx' = idx + 1 /\ outcomes' = outcomes
               ELSE /\ pc' = "aborted" /\ idx' = idx
                    /\ outcomes' = Append(outcomes, "aborted")
    /\ UNCHANGED <<tw_pairs, tw_authorized, runs>>
    /\ UNCHANGED entry_vars
    /\ UNCHANGED <<token_response, conv>>

\* the loop of sync_to_toggl is over: 'Finished synchronizing projects'
SyncToTogglFinish ==
    /\ pc = "sync_to_toggl"
    /\ idx > Len(tw_pairs)
    /\ pc' = "finished"
    /\ outcomes' = Append(outcomes, "finished")
    /\ UNCHANGED <<runs>>
    /\ UNCHANGED hier_vars
    /\ UNCHANGED entry_vars
    /\ UNCHANGED <<token_response, conv>>

Next ==
    \/ ToToggl
    \/ SyncToTogglPair
    \/ SyncToTogglFinish

Spec == Init /\ [][Next]_vars

(***************************************************************************)
(* Time entries.  A tracker entry is the json of the listing: [guid,        *)
(* description, duration, pid, stop].  A catalog record is the xml of the  *)
(* entries list: [description, hours, project], hours being the fraction   *)
(* num/den of an hour.                                                     *)
(***************************************************************************)
\* Python's truth of a string or None
truthy(s) == s # <<>>

split_after_first(s, sep) ==
    IF occurrences(s, sep) = {}
    THEN s
    ELSE SubSeq(s, Min(occurrences(s, sep)) + Len(sep), Len(s))

\* s.rsplit(sep, 1)[-1]: what follows the last occurrence of sep
rsplit_last(s, sep) ==
    IF occurrences(s, sep) = {}
    THEN s
    ELSE SubSeq(s, Max(occurrences(s, sep)) + Len(sep), Len(s))

\* float(hours) * 60 * 60, in exact arithmetic
seconds_of(hours) == (hours.num * 60 * 60) \div hours.den

TimeEntry_from_timewax_unchecked(xml_data) ==
    Return([guid |-> rsplit_last(xml_data.description, Marker),
            description |-> xml_data.description,
            duration |-> seconds_of(xml_data.hours),
            project |-> xml_data.project])

\* TimeEntry.from_timewax
TimeEntry_from_timewax(xml_data) ==
    LET desc == xml_data.description
    IN IF truthy(desc) /\ contains(desc, Marker)
       THEN Return([guid |-> rsplit_last(desc, Marker),
                    description |-> desc,
                    duration |-> seconds_of(xml_data.hours),
                    project |-> xml_data.project])
       ELSE Raise("EntryMismatchException")

\* the dict of Timewax.get_recent_entries after one more entry: a second entry
\* of a guid adds its duration to the first
merge_entry_overwrite(entries, time_entry) ==
    update(entries, time_entry.guid, time_entry)

merge_entry(entries, time_entry) ==
    IF time_entry.guid \in DOMAIN entries
    THEN [entries EXCEPT ![time_entry.guid].duration = @ + time_entry.duration]
    ELSE update(entries, time_entry.guid, time_entry)

RECURSIVE get_recent_entries_from(_, _, _)
\* the loop of Timewax.get_recent_entries from record k on
get_recent_entries_from(records, k, entries) ==
    IF k > Len(records)
    THEN entries
    ELSE LET time_entry == TimeEntry_from_timewax(records[k])
         IN get_recent_entries_from(records, k + 1,
                IF time_entry.raised # "none"
                THEN entries
                ELSE merge_entry(entries, time_entry.value))

\* Timewax.get_recent_entries
Timewax_get_recent_entries(records) ==
    get_recent_entries_from(records, 1, EmptyDict)

get_timewax_project_breakdown_uncaught(cl, pr, pid) ==
    LET cids == {c \in DOMAIN pr : pid \in DOMAIN pr[c]}
    IN IF cids = {}
       THEN Raise("EntryMismatchException")
       ELSE LET client_id == Min(cids)
            IN IF client_id \notin DOMAIN cl \/ pr[client_id][pid] = NoneObj
               THEN Raise("AttributeError")
               ELSE Return(<<cl[client_id].timewax_code,
                             pr[client_id][pid].timewax_code>>)

\* Toggl.get_timewax_project_breakdown
get_timewax_project_breakdown(cl, pr, pid) ==
    LET cids == {c \in DOMAIN pr : pid \in DOMAIN pr[c]}
    IN IF cids = {}
       THEN Raise("EntryMismatchException")
       ELSE LET client_id == Min(cids)
            IN IF client_id \notin DOMAIN cl \/ pr[client_id][pid] = NoneObj
               THEN Raise("EntryMismatchException")    \* AttributeError on None
               ELSE Return(<<cl[client_id].timewax_code,
                             pr[client_id][pid].timewax_code>>)

Toggl_get_recent_entry_yield_no_pid(cl, pr, entry) ==
    LET r == IF entry.pid = NoneId
             THEN Return(<<<<>>, <<>>>>)
             ELSE get_timewax_project_breakdown(cl, pr, entry.pid)
    IN IF r.raised = "EntryMismatchException"
       THEN [yields |-> FALSE, why |-> "mismatch"]
       ELSE IF r.raised # "none"
       THEN [yields |-> FALSE, why |-> r.raised]
       ELSE [yields |-> TRUE,
             entry |-> [guid |-> entry.guid,
                        description |-> entry.description,
                        duration |-> entry.duration,
                        stop |-> entry.stop,
                        project |-> r.value[1],
                        breakdown |-> r.value[2]]]

\* the loop body of Toggl.get_recent_entries for one entry of the listing:
\* what it yields, or why it yields nothing
Toggl_get_recent_entry(cl, pr, entry) ==
    IF entry.pid = NoneId
    THEN [yields |-> FALSE, why |-> "no_pid"]
    ELSE LET r == get_timewax_project_breakdown(cl, pr, entry.pid)
         IN IF r.raised = "EntryMismatchException"
            THEN [yields |-> FALSE, why |-> "mismatch"]
            ELSE IF r.raised # "none"
            THEN [yields |-> FALSE, why |-> r.raised]
            ELSE [yields |-> TRUE,
                  entry |-> [guid |-> entry.guid,
                             description |-> entry.description,
                             duration |-> entry.duration,
                             stop |-> entry.stop,
                             project |-> r.value[1],
                             breakdown |-> r.value[2]]]

\* the branch of the loop body of sync_to_timewax that a tracker entry takes
classify_without_stop(recent, toggl_entry) ==
    IF toggl_entry.guid \notin DOMAIN recent THEN "new"
    ELSE IF toggl_entry.duration - recent[toggl_entry.guid].duration > 60
    THEN "compensate"
    ELSE "skip"

classify_new_dropped(recent, toggl_entry) ==
    IF ~truthy(toggl_entry.stop) THEN "running"
    ELSE IF toggl_entry.guid \notin DOMAIN recent THEN "skip"
    ELSE IF toggl_entry.duration - recent[toggl_entry.guid].duration > 60
    THEN "compensate"
    ELSE "skip"

classify_two_sided(recent, toggl_entry) ==
    IF ~truthy(toggl_entry.stop) THEN "running"
    ELSE IF toggl_entry.guid \notin DOMAIN recent THEN "new"
    ELSE IF \/ toggl_entry.duration - recent[toggl_entry.guid].duration > 60
            \/ recent[toggl_entry.guid].duration - toggl_entry.duration > 60
    THEN "compensate"
    ELSE "skip"

classify_inclusive(recent, toggl_entry) ==
    IF ~truthy(toggl_entry.stop) THEN "running"
    ELSE IF toggl_entry.guid \notin DOMAIN recent THEN "new"
    ELSE IF toggl_entry.duration - recent[toggl_entry.guid].duration >= 60
    THEN "compensate"
    ELSE "skip"

classify(recent, toggl_entry) ==
    IF ~truthy(toggl_entry.stop) THEN "running"
    ELSE IF toggl_entry.guid \notin DOMAIN recent THEN "new"
    ELSE IF toggl_entry.duration - recent[toggl_entry.guid].duration > 60
    THEN "compensate"
    ELSE "skip"

sync_to_timewax_entry_prepend(recent, to_update, toggl_entry) ==
    LET branch == classify(recent, toggl_entry)
    IN [recent |-> recent,
        to_update |->
            IF branch = "new"
            THEN <<toggl_entry>> \o to_update
            ELSE IF branch = "compensate"
            THEN <<[toggl_entry EXCEPT
                       !.duration = @ - recent[toggl_entry.guid].duration]>>
                     \o to_update
            ELSE to_update]

sync_to_timewax_entry_in_place(recent, to_update, toggl_entry) ==
    LET branch == classify(recent, toggl_entry)
    IN IF branch = "new"
       THEN [recent |-> recent, to_update |-> Append(to_update, toggl_entry)]
       ELSE IF branch = "compensate"
       THEN [recent |-> [recent EXCEPT ![toggl_entry.guid].duration =
                                           toggl_entry.duration],
             to_update |-> Append(to_update,
                 [toggl_entry EXCEPT
                     !.duration = @ - recent[toggl_entry.guid].duration])]
       ELSE [recent |-> recent, to_update |-> to_update]

\* the loop body of sync_to_timewax: the catalog mapping and entries_to_update
\* after the entry; the subtraction is on the tracker entry
sync_to_timewax_entry(recent, to_update, toggl_entry) ==
    LET branch == classify(recent, toggl_entry)
    IN [recent |-> recent,
        to_update |->
            IF branch = "new"
            THEN Append(to_update, toggl_entry)
            ELSE IF branch = "compensate"
            THEN Append(to_update,
                     [toggl_entry EXCEPT
                         !.duration = @ - recent[toggl_entry.guid].duration])
            ELSE to_update]

\* TimeEntry.timewax_description: a missing description counts as ''
timewax_description(description, guid) ==
    (IF truthy(description) THEN description ELSE <<>>)
        \o <<" ">> \o Marker \o guid

to_xml_floor_hours(time_entry) ==
    [description |-> timewax_description(time_entry.description, time_entry.guid),
     hours |-> [num |-> time_entry.duration \div (60 * 60), den |-> 1],
     project |-> time_entry.project]

\* TimeEntry.to_xml, as the catalog lists the record afterwards: the hours
\* are duration / (60 * 60)
to_xml(time_entry) ==
    [description |-> timewax_description(time_entry.description, time_entry.guid),
     hours |-> [num |-> time_entry.duration, den |-> 60 * 60],
     project |-> time_entry.project]

RECURSIVE to_xml_all(_)
\* u''.join([e.to_xml() for e in time_entries]), as a list of records
to_xml_all(time_entries) ==
    IF time_entries = <<>>
    THEN <<>>
    ELSE <<to_xml(Head(time_entries))>> \o to_xml_all(Tail(time_entries))

\* Timewax.add_entries: valid is the answer of the service, which books the
\* batch when it answers 'yes'; either answer is logged and the method
\* returns
add_entries(records, time_entries, valid) ==
    [records |-> IF valid THEN records \o to_xml_all(time_entries) ELSE records,
     raised |-> "none"]

(***************************************************************************)
(* The inputs of the reconciliation.                                       *)
(***************************************************************************)
Guid1 == <<"g">>

Guid2 == <<"h">>

\* catalog descriptions written by this program for the two guids
Descriptions ==
    {timewax_description(<<"w">>, Guid1), timewax_description(<<>>, Guid2)}

\* catalog descriptions of records somebody typed into the catalog: one with a
\* text and one without a description
ForeignDescriptions == {<<"w">>, <<>>}

Hours == {[num |-> 1, den |-> 1], [num |-> 1, den |-> 2]}

Records ==
    [description : Descriptions, hours : Hours, project : {OwnerA.timewax_code}]
        \cup [description : ForeignDescriptions, hours : {[num |-> 1, den |-> 1]},
               project : {OwnerA.timewax_code}]

\* the tracker workspace of the reconciliation: the owner, its child (project
\* 1) and a project under it that is not from the catalog (project 2); a
\* client that is not from the catalog with a project under it (project 3)
EntrySrvClients == <<toggl_name(OwnerA), <<"A", "c", "m", "e">> >>

EntrySrvProjects ==
    <<[cid |-> 1, name |-> toggl_name(BreakdownB)],
      [cid |-> 1, name |-> <<"m">>],
      [cid |-> 2, name |-> toggl_name(BreakdownC)]>>

\* a project id the workspace does not have
NoSuchPid == Len(EntrySrvProjects) + 1

Stopped == <<"t">>

\* tracker entries of a guid, without the guid: stopped ones on project 1, of
\* durations around those of the catalog, and a running one
EntryShapes(guid) ==
    [duration : IF guid = Guid1 THEN {1860, 3720} ELSE {1740, 1861},
     pid : {1}, stop : {Stopped}]
        \cup [duration : {3720}, pid : {1}, stop : {<<>>}]

\* one without a project, stopped or running, and one on each project that
\* does not resolve
OtherShapes ==
    [duration : {3720}, pid : {NoneId, 2, 3, NoSuchPid}, stop : {Stopped}]
        \cup [duration : {3720}, pid : {NoneId}, stop : {<<>>}]

TrackerEntries ==
    UNION {{[guid |-> g, description |-> <<"w">>, duration |-> e.duration,
             pid |-> e.pid, stop |-> e.stop] : e \in EntryShapes(g)} :
           g \in {Guid1, Guid2}}
        \cup {[guid |-> Guid2, description |-> <<>>, duration |-> e.duration,
                pid |-> e.pid, stop |-> e.stop] : e \in OtherShapes}

\* the listings of the tracker: no guid twice
EntryLists ==
    {l \in SeqsUpTo(TrackerEntries, MaxEntries) :
        \A i, j \in DOMAIN l : l[i].guid = l[j].guid => i = j}

InitTimewax ==
    /\ tw_pairs = <<>>
    /\ tw_authorized = {}
    /\ tw_records \in SeqsUpTo(Records, MaxRecords)
    /\ srv_clients = EntrySrvClients
    /\ srv_projects = EntrySrvProjects
    /\ srv_entries \in EntryLists
    /\ clients = EmptyDict
    /\ projects = EmptyDict
    /\ pc = "idle"
    /\ idx = 1
    /\ runs = 0
    /\ events = <<>>
    /\ recent_timewax = EmptyDict
    /\ entries_to_update = <<>>
    /\ pos = 1
    /\ decisions = <<>>
    /\ submitted = <<>>
    /\ token_response = "none"
    /\ outcomes = <<>>
    /\ conv = NoConv

(***************************************************************************)
(* The to_timewax command.                                                 *)
(***************************************************************************)
\* get_toggl_timewax_from_ctx builds the gateways, then sync_to_timewax reads
\* the catalog mapping and starts with an empty list
ToTimewax ==
    /\ pc \in {"idle", "finished", "aborted", "exited"}
    /\ runs < MaxRuns
    /\ runs' = runs + 1
    /\ \E has_token \in BOOLEAN :
       \E token \in {get_token(has_token)} :
         /\ token_response' = IF has_token THEN "token" ELSE "no_token"
         /\ IF token.raised # "none"
            THEN /\ pc' = "exited"
                 /\ outcomes' = Append(outcomes, "exited")
                 /\ UNCHANGED <<clients, projects, recent_timewax,
                                entries_to_update, pos, decisions>>
            ELSE /\ clients' = get_all_clients(srv_clients)
                 /\ projects' = get_all_projects(srv_projects)
                 /\ recent_timewax' = Timewax_get_recent_entries(tw_records)
                 /\ entries_to_update' = <<>>
                 /\ pos' = 1
                 /\ decisions' = <<>>
                 /\ pc' = "sync_to_timewax"
                 /\ UNCHANGED outcomes
    /\ UNCHANGED <<tw_pairs, tw_authorized, srv_clients, srv_projects, idx, events>>
    /\ UNCHANGED <<tw_records, srv_entries, submitted, conv>>

\* the next entry of the tracker listing: Toggl.get_recent_entries yields it or
\* not, and the loop body of sync_to_timewax decides on what is yielded; an
\* exception other than the mismatch leaves the generator and ends the command
SyncToTimewaxEntry ==
    /\ pc = "sync_to_timewax"
    /\ pos <= Len(srv_entries)
    /\ \E y \in {Toggl_get_recent_entry(clients, projects, srv_entries[pos])} :
          IF y.yields
          THEN \E r \in {sync_to_timewax_entry(recent_timewax, entries_to_update,
                                               y.entry)} :
                 /\ recent_timewax' = r.recent
                 /\ entries_to_update' = r.to_update
                 /\ decisions' = Append(decisions, classify(recent_timewax, y.entry))
                 /\ pc' = pc /\ pos' = pos + 1 /\ outcomes' = outcomes
          ELSE /\ entries_to_update' = entries_to_update
               /\ recent_timewax' = recent_timewax
               /\ decisions' = Append(decisions, y.why)
               /\ IF y.why \in {"no_pid", "mismatch"}
                  THEN pc' = pc /\ pos' = pos + 1 /\ outcomes' = outcomes
                  ELSE /\ pc' = "aborted" /\ pos' = pos
                       /\ outcomes' = Append(outcomes, "aborted")
    /\ UNCHANGED <<tw_pairs, tw_authorized, srv_clients, srv_projects, idx, events>>
    /\ UNCHANGED <<tw_records, srv_entries, submitted>>
    /\ UNCHANGED <<clients, projects, runs>>
    /\ UNCHANGED <<token_response, conv>>

SyncToTimewaxSubmit_in_loop ==
    /\ pc = "sync_to_timewax"
    /\ IF entries_to_update # <<>>
       THEN \E valid \in BOOLEAN :
            \E a \in {add_entries(tw_records, entries_to_update, valid)} :
               /\ submitted' = Append(submitted,
                                   [run |-> runs, entries |-> entries_to_update,
                                    valid |-> valid])
               /\ tw_records' = a.records
               /\ pc' = IF a.raised = "none" THEN "finished" ELSE "aborted"
               /\ outcomes' = Append(outcomes, pc')
       ELSE /\ pos > Len(srv_entries)
            /\ submitted' = submitted
            /\ tw_records' = tw_records
            /\ pc' = "finished"
            /\ outcomes' = Append(outcomes, "finished")
    /\ UNCHANGED <<tw_pairs, tw_authorized, srv_clients, srv_projects, idx, events>>
    /\ UNCHANGED <<srv_entries, recent_timewax, entries_to_update, pos, decisions>>
    /\ UNCHANGED <<clients, projects, runs>>
    /\ UNCHANGED <<token_response, conv>>

\* the loop is over: a list that is not empty goes to Timewax.add_entries in
\* one request; whatever that does, 'Finished synchronizing' is the end when
\* it returns, and an exception of it ends the command
SyncToTimewaxSubmit ==
    /\ pc = "sync_to_timewax"
    /\ pos > Len(srv_entries)
    /\ IF entries_to_update # <<>>
       THEN \E valid \in BOOLEAN :
            \E a \in {add_entries(tw_records, entries_to_update, valid)} :
               /\ submitted' = Append(submitted,
                                   [run |-> runs, entries |-> entries_to_update,
                                    valid |-> valid])
               /\ tw_records' = a.records
               /\ pc' = IF a.raised = "none" THEN "finished" ELSE "aborted"
               /\ outcomes' = Append(outcomes, pc')
       ELSE /\ submitted' = submitted
            /\ tw_records' = tw_records
            /\ pc' = "finished"
            /\ outcomes' = Append(outcomes, "finished")
    /\ UNCHANGED <<tw_pairs, tw_authorized, srv_clients, srv_projects, idx, events>>
    /\ UNCHANGED <<srv_entries, recent_timewax, entries_to_update, pos, decisions>>
    /\ UNCHANGED <<clients, projects, runs>>
    /\ UNCHANGED <<token_response, conv>>

NextTimewax ==
    \/ ToTimewax
    \/ SyncToTimewaxEntry
    \/ SyncToTimewaxSubmit

SpecTimewax == InitTimewax /\ [][NextTimewax]_vars

(***************************************************************************)
(* The entity models on their own: display names and descriptions are      *)
(* formatted and parsed for inputs from bounded sets, and the catalog      *)
(* mapping of the oldest variant is built from bounded lists of records.   *)
(***************************************************************************)
MaxNameLen == 4

MaxCodeLen == 11

MaxDescLen == 3

\* n times the digit '1'
ones(n) == [i \in 1..n |-> "1"]

\* codes as the services may hold them: digits only, of several lengths, and
\* with a letter in front or at the end; the empty code
Codes ==
    {ones(n) : n \in 0..MaxCodeLen}
        \cup {ones(n) \o <<"x">> : n \in 6..9}
        \cup {<<"x">> \o ones(n) : n \in 6..9}

\* names: any text of blanks, dashes and a letter, ' - ' included
Names == SeqsUpTo({"n", " ", "-"}, MaxNameLen)

\* the names a client of the tracker may have: a code, or what is not one,
\* then the separator, part of it or nothing, then a short name
ClientNames ==
    {c \o sep \o n : c \in Codes, sep \in {Sep, <<" ", "-">>, <<>>},
                     n \in {<<>>, <<"n">>, <<"n">> \o Sep \o <<"n">>}}

\* descriptions of tracker entries: any short text, marker and its parts
\* included, and no description
EntryDescriptions == SeqsUpTo({"w", "I", "D", ":"}, MaxDescLen)

\* guids of the tracker: hexadecimal digits
TrackerGuids == {<<"a">>, <<"d">>, <<"1", "d">>, <<"d", "1", "a">>}

\* descriptions of catalog records: those of tracker entries, and those with
\* the marker of a guid
RecordDescriptions ==
    EntryDescriptions
        \cup {d \o Marker \o g : d \in {<<>>, <<"w", " ">>}, g \in TrackerGuids}

(***************************************************************************)
(* The oldest variant, toggle_timewax.py: durations of catalog entries are *)
(* hours, kept here as fractions.                                          *)
(***************************************************************************)
\* a + b on hours
add_hours(a, b) ==
    [num |-> a.num * b.den + b.num * a.den, den |-> a.den * b.den]

\* TimeEntry.from_timewax of the oldest variant
oldest_TimeEntry_from_timewax(xml_data) ==
    LET desc == xml_data.description
    IN IF truthy(desc) /\ contains(desc, Marker)
       THEN Return([guid |-> rsplit_last(desc, Marker),
                    description |-> desc,
                    duration |-> xml_data.hours,
                    project |-> xml_data.project])
       ELSE Raise("EntryMismatchException")

\* the local variable time_entry before the first assignment
Unbound == [bound |-> FALSE]

RECURSIVE oldest_get_recent_entries_from(_, _, _, _)
\* the loop of Timewax.get_recent_entries of the oldest variant from record k
\* on.  The exception of from_timewax is passed over and the rest of the body
\* runs with time_entry as the iteration before left it: unbound, or the
\* TimeEntry of the record before, which is the object in the dict (is_stored)
\* when that record was the first of its guid.
oldest_get_recent_entries_from(records, k, entries, time_entry) ==
    IF k > Len(records)
    THEN Return(entries)
    ELSE LET r == oldest_TimeEntry_from_timewax(records[k])
             te == IF r.raised = "none"
                   THEN [bound |-> TRUE, is_stored |-> FALSE, value |-> r.value]
                   ELSE time_entry
         IN IF ~te.bound
            THEN Raise("UnboundLocalError")
            ELSE LET guid == te.value.guid
                     duration == IF te.is_stored
                                 THEN entries[guid].duration
                                 ELSE te.value.duration
                 IN IF guid \in DOMAIN entries
                    THEN oldest_get_recent_entries_from(records, k + 1,
                             [entries EXCEPT
                                 ![guid].duration = add_hours(@, duration)],
                             te)
                    ELSE oldest_get_recent_entries_from(records, k + 1,
                             update(entries, guid, te.value),
                             [te EXCEPT !.is_stored = TRUE])

\* Timewax.get_recent_entries of the oldest variant
oldest_get_recent_entries(records) ==
    oldest_get_recent_entries_from(records, 1, EmptyDict, Unbound)

InitModels ==
    /\ tw_pairs = <<>>
    /\ tw_authorized = {}
    /\ srv_clients = <<>>
    /\ srv_projects = <<>>
    /\ clients = EmptyDict
    /\ projects = EmptyDict
    /\ pc = "idle"
    /\ idx = 1
    /\ runs = 0
    /\ events = <<>>
    /\ NoEntries
    /\ token_response = "none"
    /\ outcomes = <<>>
    /\ conv = NoConv

\* ClientProject.toggl_name, then ClientProject.from_toggl on the result
DisplayNameRoundTrip ==
    /\ conv = NoConv
    /\ \E code \in Codes, name \in Names :
         \E display \in {toggl_name([timewax_code |-> code, name |-> name])} :
           conv' = [op |-> "toggl_name", code |-> code, name |-> name,
                    display |-> display,
                    result |-> ClientProject_from_toggl(
                                   [id |-> 1, name |-> display])]
    /\ UNCHANGED <<pc, runs, token_response, outcomes>>
    /\ UNCHANGED hier_vars
    /\ UNCHANGED entry_vars

\* ClientProject.from_toggl on the name of a client, and Toggl.get_all_clients
\* on a workspace that has this client and, after it, one from the catalog
ParseClientName ==
    /\ conv = NoConv
    /\ \E display \in ClientNames :
           conv' = [op |-> "from_toggl", display |-> display,
                    result |-> ClientProject_from_toggl(
                                   [id |-> 1, name |-> display]),
                    listed |-> get_all_clients(<<display, toggl_name(OwnerA)>>)]
    /\ UNCHANGED <<pc, runs, token_response, outcomes>>
    /\ UNCHANGED hier_vars
    /\ UNCHANGED entry_vars

\* TimeEntry.timewax_description, then TimeEntry.from_timewax on the record
\* the catalog has for it
DescriptionRoundTrip ==
    /\ conv = NoConv
    /\ \E description \in EntryDescriptions, guid \in TrackerGuids :
         \E xml \in {to_xml([guid |-> guid, description |-> description,
                              duration |-> 60 * 60,
                              project |-> OwnerA.timewax_code])} :
           conv' = [op |-> "timewax_description", description |-> description,
                    guid |-> guid, text |-> xml.description,
                    result |-> TimeEntry_from_timewax(xml)]
    /\ UNCHANGED <<pc, runs, token_response, outcomes>>
    /\ UNCHANGED hier_vars
    /\ UNCHANGED entry_vars

\* TimeEntry.from_timewax on a record of the catalog
ParseDescription ==
    /\ conv = NoConv
    /\ \E description \in RecordDescriptions :
           conv' = [op |-> "from_timewax", text |-> description,
                    result |-> TimeEntry_from_timewax(
                                   [description |-> description,
                                    hours |-> [num |-> 1, den |-> 1],
                                    project |-> OwnerA.timewax_code])]
    /\ UNCHANGED <<pc, runs, token_response, outcomes>>
    /\ UNCHANGED hier_vars
    /\ UNCHANGED entry_vars

\* Timewax.get_recent_entries of the oldest variant on the records of a
\* catalog
OldestGetRecentEntries ==
    /\ conv = NoConv
    /\ \E records \in SeqsUpTo(Records, MaxRecords) :
           conv' = [op |-> "oldest_get_recent_entries", records |-> records,
                    result |-> oldest_get_recent_entries(records)]
    /\ UNCHANGED <<pc, runs, token_response, outcomes>>
    /\ UNCHANGED hier_vars
    /\ UNCHANGED entry_vars

NextModels ==
    \/ OldestGetRecentEntries
    \/ DisplayNameRoundTrip
    \/ ParseClientName
    \/ DescriptionRoundTrip
    \/ ParseDescription

SpecModels == InitModels /\ [][NextModels]_vars

(***************************************************************************)
(* Hierarchy sync: the properties.                                         *)
(***************************************************************************)
PairOf(e) == tw_pairs[e.idx]

PassesCheck(pair) ==
    <<pair.owner.timewax_code, pair.child.timewax_code>> \in tw_authorized

\* the tracker service has the owner node of the pair and, under it, its
\* child node, both under their display names
OnTracker(pair) ==
    \E c \in 1..Len(srv_clients) :
        /\ srv_clients[c] = toggl_name(pair.owner)
        /\ \E p \in 1..Len(srv_projects) :
               srv_projects[p] = [cid |-> c, name |-> toggl_name(pair.child)]

\* C1: over consecutive runs of sync_to_toggl on the same catalog, no create
\* is issued for an owner node or a child node that the tracker already has
\* (whether an earlier run created it or it was there before).
C1_NoRepeatedCreate ==
    \A k \in DOMAIN events :
        /\ events[k].owner_create # "none" => ~events[k].owner_on_server
        /\ events[k].child_create # "none" => ~events[k].child_on_server

\* C2: every step of the hierarchy sync keeps every owner node and every child
\* node of Toggl.clients and Toggl.projects, and of the tracker service, with
\* the same display name: nothing is deleted or renamed.
C2_StrictlyAdditive ==
    [][/\ \A c \in DOMAIN clients :
              /\ c \in DOMAIN clients'
              /\ toggl_name(clients'[c]) = toggl_name(clients[c])
       /\ \A c \in DOMAIN projects : \A p \in DOMAIN projects[c] :
              /\ c \in DOMAIN projects'
              /\ p \in DOMAIN projects'[c]
              /\ projects'[c][p] = projects[c][p]
       /\ Len(srv_clients') >= Len(srv_clients)
       /\ SubSeq(srv_clients', 1, Len(srv_clients)) = srv_clients
       /\ Len(srv_projects') >= Len(srv_projects)
       /\ SubSeq(srv_projects', 1, Len(srv_projects)) = srv_projects]_vars

\* a child node was created under an owner that already had one
C2_Witness ==
    \E k \in DOMAIN events :
        /\ events[k].child_create = "created"
        /\ events[k].client_id \in DOMAIN projects
        /\ Cardinality(DOMAIN projects[events[k].client_id]) >= 2

\* C3 as stated: an owner node or a child node is created only for a pair that
\* passes the authorization check.
C3_CreatesOnlyIfAuthorized ==
    \A k \in DOMAIN events :
        (events[k].owner_create = "created" \/ events[k].child_create = "created")
            => PassesCheck(PairOf(events[k]))

\* C3 amended: a child node is created only for a pair whose probe was accepted
\* in the same iteration, and a rejected probe creates no child node; the owner
\* node is created before the probe, whatever its answer.
C3_ChildOnlyIfAuthorized ==
    \A k \in DOMAIN events :
        /\ events[k].child_create # "none" =>
               /\ events[k].probe = "accepted"
               /\ PassesCheck(PairOf(events[k]))
        /\ events[k].probe = "rejected" =>
               /\ events[k].child_create = "none"
               /\ ~PassesCheck(PairOf(events[k]))

\* the probe of a pair was rejected after its owner node had been created
C3_Witness ==
    \E k \in DOMAIN events :
        /\ events[k].probe = "rejected"
        /\ events[k].owner_create = "created"
        /\ events[k].child_create = "none"

\* C4: an iteration whose probe is rejected raises nothing and creates no child
\* node, the loop goes on with the next pair of the catalog, and after the last
\* pair the run finishes.
C4_RejectedProbeContinues ==
    \A k \in DOMAIN events :
        events[k].probe = "rejected" =>
            /\ events[k].raised = "none"
            /\ events[k].child_create = "none"
            /\ IF k < Len(events)
               THEN \/ /\ events[k + 1].run = events[k].run
                       /\ events[k + 1].idx = events[k].idx + 1
                    \/ /\ events[k + 1].run > events[k].run
                       /\ events[k].idx = Len(tw_pairs)
               ELSE IF events[k].run < runs
               THEN events[k].idx = Len(tw_pairs)
               ELSE \/ pc = "sync_to_toggl" /\ idx = events[k].idx + 1
                    \/ pc = "finished" /\ events[k].idx = Len(tw_pairs)

\* a run finished in which a probe was rejected and a later pair was processed
C4_Witness ==
    /\ pc = "finished"
    /\ \E k \in DOMAIN events :
           /\ events[k].probe = "rejected"
           /\ k < Len(events)
           /\ events[k + 1].run = events[k].run
           /\ events[k + 1].child_create = "created"

\* C5: after a run in which no create request failed, the tracker has, for
\* every pair of the catalog that passes the authorization check, the owner
\* node "<code> - <name>" and under it the child node "<code> - <name>".
C5_AuthorizedPairsOnTracker ==
    (/\ pc \in {"finished", "aborted"}
     /\ \A k \in DOMAIN events :
            events[k].run = runs =>
                /\ events[k].owner_create # "failed"
                /\ events[k].child_create # "failed")
        => \A i \in DOMAIN tw_pairs :
               PassesCheck(tw_pairs[i]) => OnTracker(tw_pairs[i])

\* C21: an iteration of sync_to_toggl that meets a node whose display name
\* does not follow the naming convention (the owner node it has just created
\* for a catalog code that is not a 7 to 10 digit number) raises nothing: the
\* node is skipped and the loop goes on.
C21_MismatchHandledLocally ==
    \A k \in DOMAIN events :
        events[k].owner_create = "created" =>
            /\ events[k].raised # "EntryMismatchException"
            /\ (events[k].run = runs /\ k = Len(events)) => pc # "aborted"

\* C22: a project of the tracker whose name does not follow the convention is
\* no usable node of Toggl.projects, and Toggl.client_has_project answers
\* true or false for its owner, whatever the name asked for.
C22_ForeignProjectExcluded ==
    \A c \in DOMAIN clients :
        \A b \in Breakdowns :
            client_has_project(Gateway, toggl_name(b), c).raised = "none"

\* C24: a child create is only issued under an owner id that is in
\* Toggl.clients; an iteration whose owner node was missing and could not be
\* created has no owner id, ends with the EntryMismatchException of
\* client_has_project and issues neither a probe nor a child create.
C24_ChildOnlyUnderPresentOwner ==
    \A k \in DOMAIN events :
        /\ events[k].child_create # "none" =>
               /\ events[k].client_id # NoneId
               /\ events[k].client_id \in DOMAIN clients
               /\ toggl_name(clients[events[k].client_id]) = events[k].owner
               /\ events[k].owner_create # "failed"
        /\ events[k].owner_create = "failed" =>
               /\ events[k].client_id = NoneId
               /\ events[k].raised = "EntryMismatchException"
               /\ events[k].probe = "none"
               /\ events[k].child_create = "none"

\* the create of an owner node failed in one iteration, and a child node was
\* created under an owner node created in another
C24_Witness ==
    \E k, l \in DOMAIN events :
        /\ events[k].owner_create = "failed"
        /\ events[k].raised = "EntryMismatchException"
        /\ PassesCheck(PairOf(events[k]))
        /\ events[l].owner_create = "created"
        /\ events[l].child_create = "created"

\* C25: the probe of a pair is sent only when the existence check has found
\* no child node of that name under the owner; for a pair whose child node the
\* tracker already has no probe is sent; and a child create is only issued in
\* an iteration whose probe was accepted.
C25_ProbeAfterExistenceCheck ==
    \A k \in DOMAIN events :
        /\ events[k].child_on_server => events[k].probe = "none"
        /\ events[k].probe # "none" =>
               /\ ~events[k].child_on_server
               /\ events[k].client_id # NoneId
        /\ events[k].child_create # "none" => events[k].probe = "accepted"

\* one iteration found the child node of an authorized pair on the tracker
\* and sent no probe, and another sent a probe that was accepted and created
\* the child node
C25_Witness ==
    \E k, l \in DOMAIN events :
        /\ events[k].child_on_server
        /\ PassesCheck(PairOf(events[k]))
        /\ events[k].probe = "none"
        /\ events[k].raised = "none"
        /\ events[l].probe = "accepted"
        /\ events[l].child_create = "created"

(***************************************************************************)
(* Reconciliation: the properties.  The tracker entries of the reconciler  *)
(* are the entries Toggl.get_recent_entries yields.                        *)
(***************************************************************************)
\* tracker entry i has been through the loop of sync_to_timewax
Processed(i) == i \in DOMAIN decisions

Yielded(i) == Processed(i) /\ decisions[i] \notin {"no_pid", "mismatch"}

\* the positions of the list to submit that carry the guid of tracker entry i
OutputOf(i) ==
    {k \in DOMAIN entries_to_update :
        entries_to_update[k].guid = srv_entries[i].guid}

InMapping(i) == srv_entries[i].guid \in DOMAIN recent_timewax

Difference(i) ==
    srv_entries[i].duration - recent_timewax[srv_entries[i].guid].duration

\* C6: a tracker entry without a stop timestamp is in no list the reconciler
\* builds or submits, whatever the catalog mapping has for its guid.
C6_RunningNeverSubmitted ==
    \A i \in DOMAIN srv_entries :
        ~truthy(srv_entries[i].stop) =>
            /\ OutputOf(i) = {}
            /\ \A b \in DOMAIN submitted :
                   \A k \in DOMAIN submitted[b].entries :
                       submitted[b].entries[k].guid # srv_entries[i].guid

\* a finished run saw a running entry whose guid the catalog does not have, and
\* one whose guid it has with a duration more than 60 s shorter
C6_Witness ==
    /\ pc = "finished"
    /\ \E i, j \in DOMAIN srv_entries :
           /\ Yielded(i) /\ ~truthy(srv_entries[i].stop) /\ ~InMapping(i)
           /\ Yielded(j) /\ ~truthy(srv_entries[j].stop) /\ InMapping(j)
           /\ Difference(j) > 60

\* C7 as stated: a tracker entry whose guid is absent from the catalog mapping
\* is always in the list to submit, with its own duration.
C7_AbsentAlwaysIncluded ==
    \A i \in DOMAIN srv_entries :
        (Yielded(i) /\ ~InMapping(i)) =>
            \E k \in OutputOf(i) :
                entries_to_update[k].duration = srv_entries[i].duration

\* C7 amended: a tracker entry with a stop timestamp whose guid is absent from
\* the catalog mapping is in the list to submit exactly once, with its own
\* duration and description; one without a stop timestamp is not in it.
C7_StoppedAbsentIncluded ==
    \A i \in DOMAIN srv_entries :
        (Yielded(i) /\ ~InMapping(i)) =>
            IF truthy(srv_entries[i].stop)
            THEN /\ Cardinality(OutputOf(i)) = 1
                 /\ \A k \in OutputOf(i) :
                        /\ entries_to_update[k].duration = srv_entries[i].duration
                        /\ entries_to_update[k].description = srv_entries[i].description
                        /\ entries_to_update[k].stop = srv_entries[i].stop
            ELSE OutputOf(i) = {}

\* a stopped entry and a running entry, both with guids the catalog does not
\* have, have been through the loop
C7_Witness ==
    \E i, j \in DOMAIN srv_entries :
        /\ Yielded(i) /\ ~InMapping(i) /\ truthy(srv_entries[i].stop)
        /\ Yielded(j) /\ ~InMapping(j) /\ ~truthy(srv_entries[j].stop)

\* C8 as stated: for a stopped tracker entry whose guid is in the catalog
\* mapping, a difference of more than 60 s either way gives exactly one entry
\* of that guid whose duration is the signed difference.
C8_CompensatesBothWays ==
    \A i \in DOMAIN srv_entries :
        (/\ Yielded(i) /\ truthy(srv_entries[i].stop) /\ InMapping(i)
         /\ (Difference(i) > 60 \/ Difference(i) < -60)) =>
            /\ Cardinality(OutputOf(i)) = 1
            /\ \A k \in OutputOf(i) : entries_to_update[k].duration = Difference(i)

\* C8 amended: when the tracker duration exceeds the catalog duration by more
\* than 60 s there is exactly one entry of that guid, its duration is the
\* difference and the catalog duration plus it is the tracker duration; when
\* the tracker duration is shorter, by whatever amount, there is none.
C8_CompensatesLongerOnly ==
    \A i \in DOMAIN srv_entries :
        (Yielded(i) /\ truthy(srv_entries[i].stop) /\ InMapping(i)) =>
            /\ Difference(i) > 60 =>
                   /\ Cardinality(OutputOf(i)) = 1
                   /\ \A k \in OutputOf(i) :
                          /\ entries_to_update[k].duration = Difference(i)
                          /\ recent_timewax[srv_entries[i].guid].duration
                                 + entries_to_update[k].duration
                                 = srv_entries[i].duration
            /\ Difference(i) < 0 => OutputOf(i) = {}

\* the catalog has 3600 s for an entry of 3720 s, and more than 60 s more than
\* the tracker for another entry
C8_Witness ==
    \E i, j \in DOMAIN srv_entries :
        /\ Yielded(i) /\ truthy(srv_entries[i].stop) /\ InMapping(i)
        /\ srv_entries[i].duration = 3720 /\ Difference(i) = 120
        /\ Yielded(j) /\ truthy(srv_entries[j].stop) /\ InMapping(j)
        /\ Difference(j) < -60

\* C9: for a stopped tracker entry whose guid is in the catalog mapping, a
\* difference within 60 s, 60 s itself included, gives no entry of that guid,
\* and a difference of 61 s gives one.
C9_ToleranceIsStrict ==
    \A i \in DOMAIN srv_entries :
        (Yielded(i) /\ truthy(srv_entries[i].stop) /\ InMapping(i)) =>
            /\ (Difference(i) <= 60 /\ Difference(i) >= -60) => OutputOf(i) = {}
            /\ Difference(i) = 61 => OutputOf(i) # {}
            /\ OutputOf(i) # {} => Difference(i) >= 61

\* differences of exactly 60 s and of exactly 61 s have been decided on
C9_Witness ==
    \E i, j \in DOMAIN srv_entries :
        /\ Yielded(i) /\ truthy(srv_entries[i].stop) /\ InMapping(i)
        /\ Difference(i) = 60
        /\ Yielded(j) /\ truthy(srv_entries[j].stop) /\ InMapping(j)
        /\ Difference(j) = 61

\* the catalog records that carry the marker, and of those the ones of a guid
MarkedRecords ==
    {k \in DOMAIN tw_records : contains(tw_records[k].description, Marker)}

RecordsOf(guid) ==
    {k \in MarkedRecords : rsplit_last(tw_records[k].description, Marker) = guid}

RECURSIVE SumOfSeconds(_)
SumOfSeconds(ks) ==
    IF ks = {}
    THEN 0
    ELSE LET k == CHOOSE x \in ks : TRUE
         IN seconds_of(tw_records[k].hours) + SumOfSeconds(ks \ {k})

\* C10: the catalog mapping, once read from the records of the catalog and as
\* long as the catalog has booked nothing more, has one entry for each guid
\* among the records that carry the marker and no other, and the duration of
\* that entry is the sum of the durations of all records of that guid.
C10_MappingSumsPerGuid ==
    pc = "sync_to_timewax" =>
        /\ DOMAIN recent_timewax =
               {rsplit_last(tw_records[k].description, Marker) : k \in MarkedRecords}
        /\ \A g \in DOMAIN recent_timewax :
               /\ recent_timewax[g].guid = g
               /\ recent_timewax[g].duration = SumOfSeconds(RecordsOf(g))

\* records of 3600 s and 1800 s of one guid are in the mapping as 5400 s
C10_Witness ==
    /\ pc = "sync_to_timewax"
    /\ \E g \in DOMAIN recent_timewax :
           /\ {seconds_of(tw_records[k].hours) : k \in RecordsOf(g)} = {3600, 1800}
           /\ Cardinality(RecordsOf(g)) = 2
           /\ recent_timewax[g].duration = 5400

\* the records of the catalog without record k
WithoutRecord(k) ==
    SubSeq(tw_records, 1, k - 1) \o SubSeq(tw_records, k + 1, Len(tw_records))

\* the catalog records whose description is missing or has no marker
UnmarkedRecords == DOMAIN tw_records \ MarkedRecords

\* C11: a catalog record whose description carries no "ID:" marker adds no key
\* to the catalog mapping and changes no duration in it, and the records
\* after it are read: the mapping is the one the other records alone give.
C11_UnmarkedRecordSkipped ==
    pc = "sync_to_timewax" =>
        \A k \in UnmarkedRecords :
            /\ recent_timewax = Timewax_get_recent_entries(WithoutRecord(k))
            /\ tw_records[k].description \notin DOMAIN recent_timewax

\* a record without the marker was followed by a record with it, whose guid
\* is in the mapping with the duration of that record
C11_Witness ==
    /\ pc = "sync_to_timewax"
    /\ \E k \in UnmarkedRecords :
           /\ k + 1 \in MarkedRecords
           /\ \E g \in DOMAIN recent_timewax :
                  /\ RecordsOf(g) = {k + 1}
                  /\ recent_timewax[g].duration = seconds_of(tw_records[k + 1].hours)

\* the position in the tracker listing of the entry of that guid
PositionOf(guid) ==
    CHOOSE i \in DOMAIN srv_entries : srv_entries[i].guid = guid

\* the entries of the list are in the order of the tracker listing
InInputOrder(list) ==
    \A k1, k2 \in DOMAIN list :
        k1 < k2 => PositionOf(list[k1].guid) < PositionOf(list[k2].guid)

\* C12: the list the reconciler builds, and every batch it submits, has its
\* entries in the order of the tracker listing.
C12_OutputInInputOrder ==
    /\ InInputOrder(entries_to_update)
    /\ \A b \in DOMAIN submitted : InInputOrder(submitted[b].entries)

\* a batch of two entries was submitted, one new and one compensating
C12_Witness ==
    /\ pc = "finished"
    /\ \E b \in DOMAIN submitted :
           /\ Len(submitted[b].entries) = 2
           /\ submitted[b].entries = entries_to_update
           /\ {decisions[i] : i \in DOMAIN decisions} = {"new", "compensate"}

\* the project of tracker entry i does not resolve to a pair of codes from the
\* hierarchy the gateway has read: its project id is in no owner's project
\* set, the owner is not in the owner collection, or the project has no code
Unresolvable(i) ==
    LET pid == srv_entries[i].pid
        owners == {c \in DOMAIN projects : pid \in DOMAIN projects[c]}
    IN /\ pid # NoneId
       /\ \/ owners = {}
          \/ \E c \in owners : c \notin DOMAIN clients \/ projects[c][pid] = NoneObj

\* C13: a tracker entry whose project does not resolve is in no list the
\* reconciler builds or submits, and the run goes on: the next entry of the
\* listing is taken, and the run finishes having been through all of them.
C13_UnresolvableSkipped ==
    /\ pc # "aborted"
    /\ pc = "sync_to_timewax" => pos = Len(decisions) + 1
    /\ pc = "finished" => Len(decisions) = Len(srv_entries)
    /\ \A i \in DOMAIN srv_entries :
           (Processed(i) /\ Unresolvable(i)) =>
               /\ decisions[i] = "mismatch"
               /\ OutputOf(i) = {}
               /\ \A b \in DOMAIN submitted :
                      \A k \in DOMAIN submitted[b].entries :
                          submitted[b].entries[k].guid # srv_entries[i].guid

\* a run finished in which the first entry was on a project whose owner is not
\* in the owner collection and the second entry was submitted
C13_Witness ==
    /\ pc = "finished"
    /\ Len(srv_entries) = 2
    /\ Unresolvable(1)
    /\ \E c \in DOMAIN projects :
           srv_entries[1].pid \in DOMAIN projects[c] /\ c \notin DOMAIN clients
    /\ \E b \in DOMAIN submitted :
           /\ submitted[b].run = runs
           /\ Len(submitted[b].entries) = 1
           /\ submitted[b].entries[1].guid = srv_entries[2].guid

\* the batches Timewax.add_entries was called with in run r
BatchesOf(r) == {b \in DOMAIN submitted : submitted[b].run = r}

\* C26: a run of sync_to_timewax calls Timewax.add_entries at most once, with
\* a list that is not empty; the call comes when every entry of the tracker
\* listing has been through the loop and carries the whole list of included
\* entries; a run that ends with an empty list has made no call.
C26_OneBatchAfterLoop ==
    /\ \A r \in 1..runs : Cardinality(BatchesOf(r)) <= 1
    /\ \A b \in DOMAIN submitted : submitted[b].entries # <<>>
    /\ \A b \in BatchesOf(runs) :
           /\ pc \in {"finished", "aborted"}
           /\ Len(decisions) = Len(srv_entries)
           /\ submitted[b].entries = entries_to_update
    /\ pc = "sync_to_timewax" => BatchesOf(runs) = {}
    /\ pc = "finished" => (entries_to_update = <<>> <=> BatchesOf(runs) = {})

\* a second run finished without a call after a first run that submitted two
\* entries in its one batch
C26_Witness ==
    /\ pc = "finished"
    /\ runs = 2
    /\ Len(decisions) = 2
    /\ BatchesOf(2) = {}
    /\ \E b \in BatchesOf(1) : Len(submitted[b].entries) = 2

\* C27: a tracker entry without a project id is not yielded by
\* Toggl.get_recent_entries: stopped or running, its guid in the catalog
\* mapping or not, it is in no list the reconciler builds or submits, and the
\* loop goes on to the entries after it.
C27_NoProjectNeverYielded ==
    \A i \in DOMAIN srv_entries :
        (srv_entries[i].pid = NoneId /\ Processed(i)) =>
            /\ decisions[i] = "no_pid"
            /\ ~Yielded(i)
            /\ OutputOf(i) = {}
            /\ \A b \in DOMAIN submitted :
                   \A k \in DOMAIN submitted[b].entries :
                       submitted[b].entries[k].guid # srv_entries[i].guid
            /\ pc = "sync_to_timewax" => pos > i
            /\ pc \in {"finished", "aborted"} =>
                   \A j \in DOMAIN srv_entries : j > i => Processed(j)

\* a run finished in which the first entry, running, had no project id and a
\* guid the catalog mapping has, and the second entry was submitted
C27_Witness ==
    /\ pc = "finished"
    /\ Len(srv_entries) = 2
    /\ srv_entries[1].pid = NoneId
    /\ InMapping(1)
    /\ ~truthy(srv_entries[1].stop)
    /\ \E b \in BatchesOf(runs) :
           /\ Len(submitted[b].entries) = 1
           /\ submitted[b].entries[1].guid = srv_entries[2].guid

\* C14: a run whose batch the catalog answered with non-success does not end
\* as a finished synchronization: the failure ends the run.
C14_SubmissionFailureFatal ==
    \A b \in DOMAIN submitted :
        ~submitted[b].valid => outcomes[submitted[b].run] # "finished"

\* C16: while sync_to_timewax decides on the tracker entries and when it hands
\* over its list, the catalog mapping keeps its ids and durations, and the
\* owner and project collections of the tracker gateway stay as they were read.
C16_ReconcilerOnlyReads ==
    [][pc = "sync_to_timewax" =>
          /\ recent_timewax' = recent_timewax
          /\ clients' = clients
          /\ projects' = projects]_vars

\* the loop is over, with a compensating entry in the list, and the mapping is
\* still what the records of the catalog give
C16_Witness ==
    /\ pc = "sync_to_timewax"
    /\ pos > Len(srv_entries)
    /\ \E i \in DOMAIN decisions :
           /\ decisions[i] = "compensate"
           /\ OutputOf(i) # {}
    /\ recent_timewax = Timewax_get_recent_entries(tw_records)

\* an earlier run went through the whole listing
EarlierRunFinished == \E r \in 1..(runs - 1) : outcomes[r] = "finished"

\* the catalog has booked every batch handed to it so far
AllAccepted == \A b \in DOMAIN submitted : submitted[b].valid

\* C17: once a run has finished and the catalog has booked every batch handed
\* to it, a later run on the same tracker listing, with the mapping read again
\* from the catalog, puts no entry in its list: nothing is booked twice.
C17_RerunEmitsNothing ==
    (/\ pc \in {"sync_to_timewax", "finished"}
     /\ EarlierRunFinished
     /\ AllAccepted)
        => entries_to_update = <<>>

\* a second run has finished with an empty list after the first run booked a
\* new entry and a compensating entry
C17_Witness ==
    /\ pc = "finished"
    /\ EarlierRunFinished
    /\ AllAccepted
    /\ \E b \in DOMAIN submitted :
           /\ submitted[b].run < runs
           /\ Len(submitted[b].entries) = 2
           /\ \E k \in 1..2 :
                  submitted[b].entries[k].duration
                      # srv_entries[PositionOf(submitted[b].entries[k].guid)].duration
    /\ Len(decisions) = 2
    /\ \A i \in DOMAIN decisions : decisions[i] = "skip"

(***************************************************************************)
(* Both commands: the properties.                                          *)
(***************************************************************************)
\* C15: a command whose token request gets no token exits at once: that step
\* reads no hierarchy and no entries, asks for no probe and no create and
\* submits nothing, and the next step, if any, is the start of another command.
C15_AuthFailureAborts ==
    [][/\ (runs' = runs + 1 /\ token_response' = "no_token") =>
              /\ pc' = "exited"
              /\ UNCHANGED <<clients, projects, srv_clients, srv_projects, idx,
                             events, tw_records, recent_timewax,
                             entries_to_update, pos, decisions, submitted>>
       /\ (pc = "exited" \/ token_response = "no_token") => runs' = runs + 1]_vars

\* a command exited for want of a token after an earlier command had created
\* nodes on the tracker
C15_Witness ==
    /\ pc = "exited"
    /\ token_response = "no_token"
    /\ outcomes[Len(outcomes)] = "exited"
    /\ \E k \in DOMAIN events :
           events[k].run < runs /\ events[k].child_create = "created"

(***************************************************************************)
(* The entity models: the properties.                                      *)
(***************************************************************************)
\* a code of the catalog: 7 to 10 characters, all of them digits
ValidCode(code) ==
    /\ Len(code) >= 7
    /\ Len(code) <= 10
    /\ \A i \in 1..Len(code) : code[i] \in Digits

\* C18: for a code of 7 to 10 digits and any name, ClientProject.from_toggl on
\* the display name "<code> - <name>" gives that code and that name, also
\* when the name has " - " in it.
C18_DisplayNameRoundTrip ==
    (conv.op = "toggl_name" /\ ValidCode(conv.code)) =>
        /\ conv.result.raised = "none"
        /\ conv.result.value.timewax_code = conv.code
        /\ conv.result.value.name = conv.name

\* a display name of a code of 10 digits and a name with " - " in it was
\* parsed
C18_Witness ==
    /\ conv.op = "toggl_name"
    /\ ValidCode(conv.code)
    /\ Len(conv.code) = 10
    /\ contains(conv.name, Sep)
    /\ conv.result.raised = "none"
    /\ conv.result.value.name = conv.name

\* what is before the first " - " of a display name that has one
PrefixOf(display) == SubSeq(display, 1, Min(occurrences(display, Sep)) - 1)

\* the display name has no " - ", or what is before the first one is not a
\* code of 7 to 10 digits
NotConventional(display) ==
    \/ ~contains(display, Sep)
    \/ ~ValidCode(PrefixOf(display))

\* C19: ClientProject.from_toggl raises EntryMismatchException for every
\* display name whose prefix before the first " - " is not a code of 7 to 10
\* digits, or that has no " - ", and Toggl.get_all_clients leaves the node out
\* of the owner collection.
C19_NonCodePrefixRejected ==
    (conv.op = "from_toggl" /\ NotConventional(conv.display)) =>
        /\ conv.result.raised = "EntryMismatchException"
        /\ 1 \notin DOMAIN conv.listed

\* C20: TimeEntry.from_timewax gives back the guid of a tracker entry from the
\* description TimeEntry.timewax_description wrote for it, whatever the
\* description of the entry (none, empty, with "ID:" in it), and raises
\* EntryMismatchException for a description without "ID:".
C20_IdMarkerRoundTrip ==
    /\ conv.op = "timewax_description" =>
           /\ conv.result.raised = "none"
           /\ conv.result.value.guid = conv.guid
    /\ (conv.op = "from_timewax" /\ ~contains(conv.text, Marker)) =>
           conv.result.raised = "EntryMismatchException"

\* the guid came back from a description that is itself "ID:"
C20_Witness ==
    /\ conv.op = "timewax_description"
    /\ conv.description = Marker
    /\ Cardinality(occurrences(conv.text, Marker)) = 2
    /\ conv.result.raised = "none"
    /\ conv.result.value.guid = conv.guid

\* the list without its element k
Without(list, k) == SubSeq(list, 1, k - 1) \o SubSeq(list, k + 1, Len(list))

\* two results of get_recent_entries give the same mapping: the same guids
\* with the same durations
SameMapping(r1, r2) ==
    /\ r1.raised = "none"
    /\ r2.raised = "none"
    /\ DOMAIN r1.value = DOMAIN r2.value
    /\ \A g \in DOMAIN r1.value :
           r1.value[g].duration.num * r2.value[g].duration.den
               = r2.value[g].duration.num * r1.value[g].duration.den

\* C23: in the oldest variant a catalog record whose description carries no
\* "ID:" marker adds no key to the catalog mapping and changes no duration in
\* it: the mapping is the one the other records alone give.
C23_OldestUnmarkedRecordSkipped ==
    conv.op = "oldest_get_recent_entries" =>
        \A k \in DOMAIN conv.records :
            ~contains(conv.records[k].description, Marker) =>
                SameMapping(conv.result,
                            oldest_get_recent_entries(Without(conv.records, k)))

====
